---- MODULE Spec2Model ----
(***************************************************************************)
(* Model of rhai's global runtime state (src/eval/global_state.rs):        *)
(* GlobalRuntimeState, its import stack, qualified lookups, the index      *)
(* getter/setter hash cache, the shared cache of global constants, and     *)
(* the derived Clone.                                                      *)
(*                                                                         *)
(* Memory model.  A StaticVec owns a buffer: a container field of type     *)
(* StaticVec holds the address of its buffer in heap.vecs, and cloning a   *)
(* StaticVec allocates a fresh buffer with the same contents.  A Shared    *)
(* (reference-counted) value is an address in heap.caches, and cloning a   *)
(* Shared copies the address.  Scalars are values.                         *)
(*                                                                         *)
(* Indices are zero-based, as in the source; a sequence position p holds   *)
(* the element of index p - 1.  Option<T> is a sequence of length <= 1.    *)
(***************************************************************************)
EXTENDS Integers, Sequences, FiniteSets, TLC

VARIABLES
    engine,   \* the Engine the containers are built from
    global,   \* sequence of GlobalRuntimeState values; position = container id
    heap,     \* [vecs: StaticVec buffers, caches: GlobalConstants cells]
    ret,      \* the last call: operation, receiver, arguments, returned value
    pushed,   \* history: per container, the (name, module) pairs pushed and not truncated
    saved,    \* per container, the evaluator's open blocks: saved length and stack snapshot
    origin,   \* history: per container, its parent (0: constructed) and whether the
              \* parent held a constants cache when it was cloned
    steps,    \* operations performed so far, where a specification bounds the run
    lock,     \* the holds on the constants caches' locks: <<cache, thread, mode>>
    threads,  \* per container, the thread driving it: position, operation, local copy
    inserted  \* history: the names whose insert by a thread has completed

vars == <<engine, global, heap, ret, pushed, saved, origin, steps, lock, threads, inserted>>

----------------------------------------------------------------------------
(* Bounds of the model.                                                    *)

MaxImports == 3        \* import stack depth, one container
MaxExtend == 2         \* length of the sequence given to extend
MaxBlocks == 2         \* open blocks per container
MaxGlobals == 3        \* containers alive
MaxShallow == 1        \* import stack depth where the stack is not the subject
MaxSteps == 4          \* operations per run in the cloning specifications
MaxHash == 2           \* dispatch hashes range over 0..MaxHash
MaxThreads == 2        \* threads sharing one constants cache
MaxThreadOps == 3      \* cache operations the threads perform in all

----------------------------------------------------------------------------
(* Option, iterators and results.                                          *)

None == <<>>
Some(x) == <<x>>
IsSome(o) == Len(o) = 1
Unwrap(o) == o[1]

Min(a, b) == IF a <= b THEN a ELSE b

Ok(v) == [panic |-> FALSE, val |-> v]
Panicked == [panic |-> TRUE, val |-> None]

\* Iterator::rev
rev(it) == [i \in 1..Len(it) |-> it[Len(it) + 1 - i]]

\* Iterator::zip: stops with the shorter side
zip(a, b) == [i \in 1..Min(Len(a), Len(b)) |-> <<a[i], b[i]>>]

\* An early-exit adaptor (position, any, find_map) is applied to the sequence
\* of its closure's results, one per item, in iteration order.

\* Number of items the adaptor consumes: up to and including the first hit
\* (a TRUE, or a Some), or all of them.
Consumed(hits) ==
    IF \E i \in 1..Len(hits) : hits[i]
    THEN CHOOSE i \in 1..Len(hits) : hits[i] /\ \A j \in 1..(i - 1) : ~hits[j]
    ELSE Len(hits)

\* Iterator::position: zero-based index of the first item whose test is TRUE
position(tests) ==
    IF \E i \in 1..Len(tests) : tests[i]
    THEN Some(Consumed(tests) - 1)
    ELSE None

\* Iterator::any
any(tests) == \E i \in 1..Len(tests) : tests[i]

\* Iterator::find_map: the first Some among the closure's results
find_map(opts) ==
    IF \E i \in 1..Len(opts) : IsSome(opts[i])
    THEN opts[Consumed([i \in 1..Len(opts) |-> IsSome(opts[i])])]
    ELSE None

\* Option::map with the closure's result given per value
IsHit(opts) == [i \in 1..Len(opts) |-> IsSome(opts[i])]

\* Vec::truncate: no effect when len >= the current length
truncate(v, len) == IF len >= Len(v) THEN v ELSE SubSeq(v, 1, len)

\* Vec::get
get(v, index) == IF index < Len(v) THEN Some(v[index + 1]) ELSE None

\* usize subtraction: a result below zero is an arithmetic overflow
UsizeSub(a, b) == IF a >= b THEN Ok(a - b) ELSE Panicked

----------------------------------------------------------------------------
(* Modules (external collaborators): each owns its dispatch tables.        *)

ImportNames == {"m", "n"}
QueryNames == ImportNames \cup {"z"}
FnHashes == {1, 2, 3}
TypeIds == {1, 2}

ModuleTable ==
    [ A |-> [id |-> Some("a"), fns |-> {<<1, "fA1">>}, iters |-> {<<1, "itA">>},
             dynamic |-> {1}],
      B |-> [id |-> Some("b"), fns |-> {<<1, "fB1">>, <<2, "fB2">>},
             iters |-> {<<1, "itB">>}, dynamic |-> {2}],
      C |-> [id |-> None, fns |-> {}, iters |-> {}, dynamic |-> {}] ]

Modules == DOMAIN ModuleTable

TableGet(table, key) ==
    IF \E e \in table : e[1] = key
    THEN Some((CHOOSE e \in table : e[1] = key)[2])
    ELSE None

Module_may_contain_dynamic_fn(m, hash_script) == hash_script \in ModuleTable[m].dynamic
Module_contains_qualified_fn(m, hash) == IsSome(TableGet(ModuleTable[m].fns, hash))
Module_get_qualified_fn(m, hash) == TableGet(ModuleTable[m].fns, hash)
Module_contains_qualified_iter(m, id) == IsSome(TableGet(ModuleTable[m].iters, id))
Module_get_qualified_iter(m, id) == TableGet(ModuleTable[m].iters, id)
Module_id_raw(m) == ModuleTable[m].id

----------------------------------------------------------------------------
(* The Engine (external, construction time).                               *)

FN_IDX_GET == "index$get$"
FN_IDX_SET == "index$set$"

\* An engine: its default tag, its debugger (None, or the registered init
\* callback) and the values of the function hash on the two index operators.
Engines(hashes, debuggers) ==
    [default_tag : {"tag"}, debugger : debuggers, fn_hash : hashes]

\* The init callbacks a host may register: each is a function of the engine;
\* one of them returns the unit value.
InitCallbacks == {"init_ctx", "init_tagged", "init_unit"}

\* init(engine): the call of a registered callback
init(callback, e) ==
    CASE callback = "init_ctx" -> "ctx"
      [] callback = "init_tagged" -> <<"ctx", e.default_tag>>
      [] OTHER -> "UNIT"

\* crate::calc_fn_hash(None, fn_name, num): a fixed function of its arguments
calc_fn_hash(e, fn_name, num) ==
    IF fn_name = FN_IDX_GET /\ num = 2 THEN e.fn_hash[1] ELSE e.fn_hash[2]

----------------------------------------------------------------------------
(* Memory.                                                                 *)

EmptyHeap == [vecs |-> <<>>, caches |-> <<>>]

\* StaticVec::new_const / StaticVec::clone: a fresh buffer holding `items`
AllocVec(h, items) == [h EXCEPT !.vecs = Append(@, items)]

\* Shared::new(Locked::new(BTreeMap::new()))
AllocCache(h) == [h EXCEPT !.caches = Append(@, {})]

----------------------------------------------------------------------------
(* GlobalRuntimeState.                                                     *)

\* A faulty variant: the debugger starts in CONTINUE whatever the engine has
debugger_new_continue(e) ==
    [status |-> "CONTINUE",
     context |-> IF IsSome(e.debugger) THEN init(Unwrap(e.debugger), e) ELSE "UNIT"]

\* The debugger field of new: Debugger::new(status, context)
debugger_new(e) ==
    [status |-> IF IsSome(e.debugger) THEN "Init" ELSE "CONTINUE",
     context |-> IF IsSome(e.debugger) THEN init(Unwrap(e.debugger), e) ELSE "UNIT"]

\* A faulty variant: the tag is a fixed value, not the engine's default tag
new_fixed_tag(e, h) ==
    LET a == Len(h.vecs)
    IN  [global |->
            [imports |-> a + 1,
             modules |-> a + 2,
             lib |-> a + 3,
             source |-> None,
             num_operations |-> 0,
             num_modules_loaded |-> 0,
             scope_level |-> 0,
             level |-> 0,
             always_search_scope |-> FALSE,
             embedded_module_resolver |-> None,
             fn_hash_indexing |-> <<0, 0>>,
             constants |-> None,
             tag |-> "tag",
             debugger |-> debugger_new(e)],
         heap |-> AllocVec(AllocVec(AllocVec(h, <<>>), <<>>), <<>>)]

\* GlobalRuntimeState::new
new(e, h) ==
    LET a == Len(h.vecs)
    IN  [global |->
            [imports |-> a + 1,
             modules |-> a + 2,
             lib |-> a + 3,
             source |-> None,
             num_operations |-> 0,
             num_modules_loaded |-> 0,
             scope_level |-> 0,
             level |-> 0,
             always_search_scope |-> FALSE,
             embedded_module_resolver |-> None,
             fn_hash_indexing |-> <<0, 0>>,
             constants |-> None,
             tag |-> e.default_tag,
             debugger |-> debugger_new(e)],
         heap |-> AllocVec(AllocVec(AllocVec(h, <<>>), <<>>), <<>>)]

\* A faulty variant: the constants cache is copied, not shared
Clone_deep_constants(g, h) ==
    LET a == Len(h.vecs)
        k == Len(h.caches)
        h1 == AllocVec(AllocVec(AllocVec(h, h.vecs[g.imports]), h.vecs[g.modules]),
                       h.vecs[g.lib])
    IN  IF IsSome(g.constants)
        THEN [global |-> [g EXCEPT !.imports = a + 1, !.modules = a + 2, !.lib = a + 3,
                                   !.constants = Some(k + 1)],
              heap |-> [h1 EXCEPT !.caches = Append(@, h.caches[Unwrap(g.constants)])]]
        ELSE [global |-> [g EXCEPT !.imports = a + 1, !.modules = a + 2, !.lib = a + 3],
              heap |-> h1]

\* A faulty variant: the vectors are shared with the original instead of copied
Clone_shared_vecs(g, h) == [global |-> g, heap |-> h]

\* #[derive(Clone)]: every field is cloned by its own type's Clone
Clone(g, h) ==
    LET a == Len(h.vecs)
    IN  [global |-> [g EXCEPT !.imports = a + 1, !.modules = a + 2, !.lib = a + 3],
         heap |-> AllocVec(AllocVec(AllocVec(h, h.vecs[g.imports]),
                                    h.vecs[g.modules]), h.vecs[g.lib])]

\* The contents of the two import-stack vectors
Imports(g, h) == h.vecs[g.imports]
ModulesOf(g, h) == h.vecs[g.modules]

num_imports(g, h) == Len(ModulesOf(g, h))

\* A faulty variant: the vector is indexed directly, which panics out of range
get_shared_import_indexed(g, h, index) ==
    IF index < Len(ModulesOf(g, h)) THEN Ok(Some(ModulesOf(g, h)[index + 1])) ELSE Panicked

get_shared_import(g, h, index) == Ok(get(ModulesOf(g, h), index))

\* A faulty variant: the scan is not reversed, so the first occurrence is found
find_import_first(g, h, name) ==
    LET it == Imports(g, h)
        found == position([i \in 1..Len(it) |-> it[i] = name])
    IN  IF IsSome(found) THEN Ok(Some(Unwrap(found))) ELSE Ok(None)

find_import(g, h, name) ==
    LET it == rev(Imports(g, h))
        found == position([i \in 1..Len(it) |-> it[i] = name])
    IN  IF IsSome(found)
        THEN LET len1 == UsizeSub(Len(Imports(g, h)), 1)
                 idx == IF len1.panic THEN Panicked
                        ELSE UsizeSub(len1.val, Unwrap(found))
             IN  IF idx.panic THEN Panicked ELSE Ok(Some(idx.val))
        ELSE Ok(None)

\* A faulty variant: the module is pushed onto `lib` as well
push_import_lib(g, h, name, module) ==
    LET h1 == [h EXCEPT !.vecs[g.imports] = Append(@, name)]
        h2 == [h1 EXCEPT !.vecs[g.modules] = Append(@, module)]
    IN  [h2 EXCEPT !.vecs[g.lib] = Append(@, module)]

\* A faulty variant: the module goes to the bottom of its vector, not the top
push_import_front(g, h, name, module) ==
    LET h1 == [h EXCEPT !.vecs[g.imports] = Append(@, name)]
    IN  [h1 EXCEPT !.vecs[g.modules] = <<module>> \o @]

push_import(g, h, name, module) ==
    LET h1 == [h EXCEPT !.vecs[g.imports] = Append(@, name)]
    IN  [h1 EXCEPT !.vecs[g.modules] = Append(@, module)]

\* A faulty variant: the vectors are resized, so a larger size pads them
truncate_imports_resize(g, h, size) ==
    LET pad(v, x) == IF size > Len(v) THEN v \o [i \in 1..(size - Len(v)) |-> x]
                     ELSE SubSeq(v, 1, size)
        h1 == [h EXCEPT !.vecs[g.imports] = pad(@, "")]
    IN  [h1 EXCEPT !.vecs[g.modules] = pad(@, "C")]

\* A faulty variant: only the names are truncated
truncate_imports_names(g, h, size) ==
    [h EXCEPT !.vecs[g.imports] = truncate(@, size)]

truncate_imports(g, h, size) ==
    LET h1 == [h EXCEPT !.vecs[g.imports] = truncate(@, size)]
    IN  [h1 EXCEPT !.vecs[g.modules] = truncate(@, size)]

\* A faulty variant: the given pairs are pushed last-first
extend_reversed(g, h, iter) ==
    LET h1 == [h EXCEPT !.vecs[g.imports] = @ \o [i \in 1..Len(iter) |-> rev(iter)[i][1]]]
    IN  [h1 EXCEPT !.vecs[g.modules] = @ \o [i \in 1..Len(iter) |-> rev(iter)[i][2]]]

\* impl Extend: the loop over the given pairs
RECURSIVE extend(_, _, _)
extend(g, h, iter) ==
    IF iter = <<>> THEN h
    ELSE LET h1 == [h EXCEPT !.vecs[g.imports] = Append(@, Head(iter)[1])]
             h2 == [h1 EXCEPT !.vecs[g.modules] = Append(@, Head(iter)[2])]
         IN  extend(g, h2, Tail(iter))

\* A faulty variant: the zipped pairs are not reversed
iter_imports_forward(g, h) == zip(Imports(g, h), ModulesOf(g, h))

\* The closing map (name.as_str(), &**module) borrows the same name and the
\* same module: it changes the item's type, not what it denotes.
iter_imports(g, h) == rev(zip(Imports(g, h), ModulesOf(g, h)))
iter_imports_raw(g, h) == rev(zip(Imports(g, h), ModulesOf(g, h)))
scan_imports_raw(g, h) == zip(Imports(g, h), ModulesOf(g, h))

\* The indices of a vector in iteration order, to name the items a scan visits
Indices(v) == [i \in 1..Len(v) |-> i - 1]

\* A lookup's result: the value returned and the indices of the modules it
\* asked, in the order it asked them.
Looked(val, order, tests) == [val |-> val, probes |-> SubSeq(order, 1, Consumed(tests))]

may_contain_dynamic_fn(g, h, hash_script) ==
    LET it == ModulesOf(g, h)
        tests == [i \in 1..Len(it) |-> Module_may_contain_dynamic_fn(it[i], hash_script)]
    IN  Looked(any(tests), Indices(it), tests)

\* A faulty variant: only the first imported module is asked
contains_qualified_fn_first(g, h, hash) ==
    LET it == SubSeq(ModulesOf(g, h), 1, Min(1, Len(ModulesOf(g, h))))
        tests == [i \in 1..Len(it) |-> Module_contains_qualified_fn(it[i], hash)]
    IN  Looked(any(tests), Indices(it), tests)

contains_qualified_fn(g, h, hash) ==
    LET it == ModulesOf(g, h)
        tests == [i \in 1..Len(it) |-> Module_contains_qualified_fn(it[i], hash)]
    IN  Looked(any(tests), Indices(it), tests)

\* A faulty variant: the scan is not reversed, so the first imported module wins
get_qualified_fn_forward(g, h, hash) ==
    LET it == ModulesOf(g, h)
        opts == [i \in 1..Len(it) |->
                    IF IsSome(Module_get_qualified_fn(it[i], hash))
                    THEN Some(<<Unwrap(Module_get_qualified_fn(it[i], hash)),
                                Module_id_raw(it[i])>>)
                    ELSE None]
    IN  Looked(find_map(opts), Indices(it), IsHit(opts))

get_qualified_fn(g, h, hash) ==
    LET it == rev(ModulesOf(g, h))
        opts == [i \in 1..Len(it) |->
                    IF IsSome(Module_get_qualified_fn(it[i], hash))
                    THEN Some(<<Unwrap(Module_get_qualified_fn(it[i], hash)),
                                Module_id_raw(it[i])>>)
                    ELSE None]
    IN  Looked(find_map(opts), rev(Indices(ModulesOf(g, h))), IsHit(opts))

contains_iter(g, h, id) ==
    LET it == ModulesOf(g, h)
        tests == [i \in 1..Len(it) |-> Module_contains_qualified_iter(it[i], id)]
    IN  Looked(any(tests), Indices(it), tests)

get_iter(g, h, id) ==
    LET it == rev(ModulesOf(g, h))
        opts == [i \in 1..Len(it) |-> Module_get_qualified_iter(it[i], id)]
    IN  Looked(find_map(opts), rev(Indices(ModulesOf(g, h))), IsHit(opts))

source(g) == g.source

\* A faulty variant: the computed pair is stored the wrong way round
hash_idx_get_swapped(g, e) ==
    IF g.fn_hash_indexing = <<0, 0>>
    THEN LET n1 == calc_fn_hash(e, FN_IDX_GET, 2)
             n2 == calc_fn_hash(e, FN_IDX_SET, 3)
         IN  [global |-> [g EXCEPT !.fn_hash_indexing = <<n2, n1>>],
              val |-> n1, calcs |-> 2]
    ELSE [global |-> g, val |-> g.fn_hash_indexing[1], calcs |-> 0]

\* hash_idx_get / hash_idx_set: the container afterwards, the value returned
\* and the number of calc_fn_hash calls made
hash_idx_get(g, e) ==
    IF g.fn_hash_indexing = <<0, 0>>
    THEN LET n1 == calc_fn_hash(e, FN_IDX_GET, 2)
             n2 == calc_fn_hash(e, FN_IDX_SET, 3)
         IN  [global |-> [g EXCEPT !.fn_hash_indexing = <<n1, n2>>],
              val |-> n1, calcs |-> 2]
    ELSE [global |-> g, val |-> g.fn_hash_indexing[1], calcs |-> 0]

\* A faulty variant: computing the hashes also clears the search flag
hash_idx_set_reset(g, e) ==
    IF g.fn_hash_indexing = <<0, 0>>
    THEN LET n1 == calc_fn_hash(e, FN_IDX_GET, 2)
             n2 == calc_fn_hash(e, FN_IDX_SET, 3)
         IN  [global |-> [g EXCEPT !.fn_hash_indexing = <<n1, n2>>,
                                   !.always_search_scope = FALSE],
              val |-> n2, calcs |-> 2]
    ELSE [global |-> g, val |-> g.fn_hash_indexing[2], calcs |-> 0]

hash_idx_set(g, e) ==
    IF g.fn_hash_indexing = <<0, 0>>
    THEN LET n1 == calc_fn_hash(e, FN_IDX_GET, 2)
             n2 == calc_fn_hash(e, FN_IDX_SET, 3)
         IN  [global |-> [g EXCEPT !.fn_hash_indexing = <<n1, n2>>],
              val |-> n2, calcs |-> 2]
    ELSE [global |-> g, val |-> g.fn_hash_indexing[2], calcs |-> 0]

----------------------------------------------------------------------------
(* The evaluator's use of the public fields (external, steady state).      *)

\* A global constant declaration: the cache is created on the first one
\* (get_or_insert_with), then the constant is inserted under the lock.
declare_constant(g, h, name, value) ==
    LET h1 == IF IsSome(g.constants) THEN h ELSE AllocCache(h)
        addr == IF IsSome(g.constants) THEN Unwrap(g.constants) ELSE Len(h1.caches)
    IN  [global |-> [g EXCEPT !.constants = Some(addr)],
         heap |-> [h1 EXCEPT !.caches[addr] =
                      {e \in @ : e[1] # name} \cup {<<name, value>>}]]

\* A reference to a global constant: a read of the cache under the lock
read_constant(g, h, name) ==
    IF IsSome(g.constants) THEN TableGet(h.caches[Unwrap(g.constants)], name) ELSE None

\* The whole cache as seen through a container
ConstantsOf(g, h) == IF IsSome(g.constants) THEN h.caches[Unwrap(g.constants)] ELSE {}

\* Locked<T>: a hold is <<cache address, thread, "read" or "write">>.  A read
\* hold is granted while no thread holds the cache for writing, a write hold
\* while no thread holds it at all.
NoHolds == {}
can_read(l, addr) == ~\E e \in l : e[1] = addr /\ e[3] = "write"

\* A faulty variant: a write hold is granted whoever holds the cache
can_write_always(l, addr) == TRUE

can_write(l, addr) == ~\E e \in l : e[1] = addr

\* An insert into the map, in two parts: the entry under `name` is taken out
\* and the remaining map kept aside, then the map is stored with the new entry.
insert_take(map, name) == {e \in map : e[1] # name}
insert_store(kept, name, value) == kept \cup {<<name, value>>}

----------------------------------------------------------------------------
(* Initial state: one container constructed from the engine.               *)

Ids == 1..Len(global)

\* A thread that has performed no cache operation yet
NotStarted ==
    [pc |-> "idle", name |-> "", value |-> 0, kept |-> {}]

Called(op, c, arg, val) ==
    [op |-> op, c |-> c, arg |-> arg, val |-> val, probes |-> <<>>,
     panic |-> FALSE, calcs |-> 0]

InitWith(engines) ==
    /\ engine \in engines
    /\ LET n == new(engine, EmptyHeap)
       IN  global = <<n.global>> /\ heap = n.heap
    /\ ret = Called("new", 1, <<>>, None)
    /\ pushed = << <<>> >>
    /\ saved = << <<>> >>
    /\ origin = <<[parent |-> 0, cached |-> FALSE]>>
    /\ steps = 0
    /\ lock = NoHolds
    /\ threads = [t \in 1..MaxThreads |-> NotStarted]
    /\ inserted = {}

Init == InitWith(Engines({<<1, 2>>}, {None}))

----------------------------------------------------------------------------
(* Operations on container c.                                              *)

PushImport(c, name, module) ==
    /\ heap' = push_import(global[c], heap, name, module)
    /\ pushed' = [pushed EXCEPT ![c] = Append(@, <<name, module>>)]
    /\ ret' = Called("push_import", c, <<name, module>>, None)
    /\ UNCHANGED <<engine, global, saved, origin>>

ExtendImports(c, iter) ==
    /\ heap' = extend(global[c], heap, iter)
    /\ pushed' = [pushed EXCEPT ![c] = @ \o iter]
    /\ ret' = Called("extend", c, iter, None)
    /\ UNCHANGED <<engine, global, saved, origin>>

TruncateImports(c, size) ==
    /\ heap' = truncate_imports(global[c], heap, size)
    /\ pushed' = [pushed EXCEPT ![c] = truncate(@, size)]
    /\ ret' = Called("truncate_imports", c, size, None)
    /\ UNCHANGED <<engine, global, saved, origin>>

NumImports(c) ==
    /\ ret' = Called("num_imports", c, <<>>, num_imports(global[c], heap))
    /\ UNCHANGED <<engine, global, heap, pushed, saved, origin>>

GetSharedImport(c, index) ==
    /\ LET r == get_shared_import(global[c], heap, index)
       IN  ret' = [Called("get_shared_import", c, index, r.val) EXCEPT !.panic = r.panic]
    /\ UNCHANGED <<engine, global, heap, pushed, saved, origin>>

FindImport(c, name) ==
    /\ LET r == find_import(global[c], heap, name)
       IN  ret' = [Called("find_import", c, name, r.val) EXCEPT !.panic = r.panic]
    /\ UNCHANGED <<engine, global, heap, pushed, saved, origin>>

IterImports(c) ==
    /\ ret' = Called("iter_imports", c, <<>>, iter_imports(global[c], heap))
    /\ UNCHANGED <<engine, global, heap, pushed, saved, origin>>

IterImportsRaw(c) ==
    /\ ret' = Called("iter_imports_raw", c, <<>>, iter_imports_raw(global[c], heap))
    /\ UNCHANGED <<engine, global, heap, pushed, saved, origin>>

ScanImportsRaw(c) ==
    /\ ret' = Called("scan_imports_raw", c, <<>>, scan_imports_raw(global[c], heap))
    /\ UNCHANGED <<engine, global, heap, pushed, saved, origin>>

Lookup(op, c, arg, r) ==
    /\ ret' = [Called(op, c, arg, r.val) EXCEPT !.probes = r.probes]
    /\ UNCHANGED <<engine, global, heap, pushed, saved, origin>>

MayContainDynamicFn(c, hash_script) ==
    Lookup("may_contain_dynamic_fn", c, hash_script,
           may_contain_dynamic_fn(global[c], heap, hash_script))

ContainsQualifiedFn(c, hash) ==
    Lookup("contains_qualified_fn", c, hash, contains_qualified_fn(global[c], heap, hash))

GetQualifiedFn(c, hash) ==
    Lookup("get_qualified_fn", c, hash, get_qualified_fn(global[c], heap, hash))

ContainsIter(c, id) ==
    Lookup("contains_iter", c, id, contains_iter(global[c], heap, id))

GetIter(c, id) ==
    Lookup("get_iter", c, id, get_iter(global[c], heap, id))

Source(c) ==
    /\ ret' = Called("source", c, <<>>, source(global[c]))
    /\ UNCHANGED <<engine, global, heap, pushed, saved, origin>>

HashIdxGet(c) ==
    /\ LET r == hash_idx_get(global[c], engine)
       IN  /\ global' = [global EXCEPT ![c] = r.global]
           /\ ret' = [Called("hash_idx_get", c, <<>>, r.val) EXCEPT !.calcs = r.calcs]
    /\ UNCHANGED <<engine, heap, pushed, saved, origin>>

HashIdxSet(c) ==
    /\ LET r == hash_idx_set(global[c], engine)
       IN  /\ global' = [global EXCEPT ![c] = r.global]
           /\ ret' = [Called("hash_idx_set", c, <<>>, r.val) EXCEPT !.calcs = r.calcs]
    /\ UNCHANGED <<engine, heap, pushed, saved, origin>>

\* global.clone(): a new container, made from container c
CloneGlobal(c) ==
    /\ LET r == Clone(global[c], heap)
       IN  /\ global' = Append(global, r.global)
           /\ heap' = r.heap
    /\ pushed' = Append(pushed, pushed[c])
    /\ saved' = Append(saved, <<>>)
    /\ origin' = Append(origin, [parent |-> c, cached |-> IsSome(global[c].constants)])
    /\ ret' = Called("clone", c, <<>>, Some(Len(global) + 1))
    /\ UNCHANGED engine

\* The evaluator counts a step, a loaded module, a call or a scope: field is
\* one of the public counters, delta is 1 or -1.
CounterFields == {"num_operations", "num_modules_loaded", "level", "scope_level"}
DepthFields == {"level", "scope_level"}

WriteCounter(c, field, delta) ==
    /\ global' = [global EXCEPT ![c][field] = @ + delta]
    /\ ret' = Called("write_counter", c, <<field, delta>>, None)
    /\ UNCHANGED <<engine, heap, pushed, saved, origin>>

\* The evaluator ran an `eval` or a custom syntax that changed the scope
SetAlwaysSearchScope(c) ==
    /\ global' = [global EXCEPT ![c].always_search_scope = TRUE]
    /\ ret' = Called("set_always_search_scope", c, <<>>, None)
    /\ UNCHANGED <<engine, heap, pushed, saved, origin>>

\* The evaluator enters a script or a function that has a source
SetSource(c, src) ==
    /\ global' = [global EXCEPT ![c].source = Some(src)]
    /\ ret' = Called("set_source", c, <<src>>, None)
    /\ UNCHANGED <<engine, heap, pushed, saved, origin>>

DeclareConstant(c, name, value) ==
    /\ LET r == declare_constant(global[c], heap, name, value)
       IN  /\ global' = [global EXCEPT ![c] = r.global]
           /\ heap' = r.heap
    /\ ret' = Called("declare_constant", c, <<name, value>>, None)
    /\ UNCHANGED <<engine, pushed, saved, origin>>

ReadConstant(c, name) ==
    /\ ret' = Called("read_constant", c, name, read_constant(global[c], heap, name))
    /\ UNCHANGED <<engine, global, heap, pushed, saved, origin>>

\* A block is entered: the evaluator remembers num_imports()
EnterBlock(c) ==
    /\ saved' = [saved EXCEPT ![c] =
                    Append(@, [len |-> num_imports(global[c], heap),
                               imports |-> Imports(global[c], heap),
                               modules |-> ModulesOf(global[c], heap)])]
    /\ ret' = Called("enter_block", c, <<>>, None)
    /\ UNCHANGED <<engine, global, heap, pushed, origin>>

\* The block is left: the evaluator truncates to the remembered length
ExitBlock(c) ==
    /\ saved[c] # <<>>
    /\ LET top == saved[c][Len(saved[c])]
       IN  /\ heap' = truncate_imports(global[c], heap, top.len)
           /\ pushed' = [pushed EXCEPT ![c] = truncate(@, top.len)]
           /\ ret' = Called("exit_block", c,
                             [len |-> top.len, imports |-> top.imports,
                              modules |-> top.modules,
                              was |-> num_imports(global[c], heap)], None)
    /\ saved' = [saved EXCEPT ![c] = SubSeq(@, 1, Len(@) - 1)]
    /\ UNCHANGED <<engine, global, origin>>

----------------------------------------------------------------------------
(* Thread t drives container t; its cache operations hold the cache's lock *)
(* from their first step to their last.  `steps` counts the operations the *)
(* threads have begun, out of the MaxThreadOps the run gives them.         *)

CacheOf(t) == Unwrap(global[t].constants)

\* A reference to a global constant, first step: the read hold is taken
ReadLock(t, name) ==
    /\ threads[t].pc = "idle" /\ steps < MaxThreadOps
    /\ can_read(lock, CacheOf(t))
    /\ lock' = lock \cup {<<CacheOf(t), t, "read">>}
    /\ threads' = [threads EXCEPT ![t].pc = "reading", ![t].name = name]
    /\ ret' = Called("read_lock", t, <<name>>, None)
    /\ steps' = steps + 1
    /\ UNCHANGED <<engine, global, heap, pushed, saved, origin, inserted>>

\* ... last step: the value is read and the hold released
ReadUnlock(t) ==
    /\ threads[t].pc = "reading"
    /\ ret' = Called("locked_read", t, <<threads[t].name>>,
                     read_constant(global[t], heap, threads[t].name))
    /\ lock' = lock \ {<<CacheOf(t), t, "read">>}
    /\ threads' = [threads EXCEPT ![t].pc = "idle"]
    /\ UNCHANGED <<engine, global, heap, pushed, saved, origin, steps, inserted>>

\* A global constant declaration, first step: the write hold is taken and
\* the insert begins
WriteLock(t, name, value) ==
    /\ threads[t].pc = "idle" /\ steps < MaxThreadOps
    /\ can_write(lock, CacheOf(t))
    /\ lock' = lock \cup {<<CacheOf(t), t, "write">>}
    /\ LET kept == insert_take(heap.caches[CacheOf(t)], name)
       IN  /\ heap' = [heap EXCEPT !.caches[CacheOf(t)] = kept]
           /\ threads' = [threads EXCEPT ![t].pc = "inserting", ![t].name = name,
                                         ![t].value = value, ![t].kept = kept]
    /\ ret' = Called("write_lock", t, <<name, value>>, None)
    /\ steps' = steps + 1
    /\ UNCHANGED <<engine, global, pushed, saved, origin, inserted>>

\* ... last step: the insert completes and the hold is released
WriteUnlock(t) ==
    /\ threads[t].pc = "inserting"
    /\ heap' = [heap EXCEPT !.caches[CacheOf(t)] =
                    insert_store(threads[t].kept, threads[t].name, threads[t].value)]
    /\ lock' = lock \ {<<CacheOf(t), t, "write">>}
    /\ threads' = [threads EXCEPT ![t].pc = "idle", ![t].kept = {}]
    /\ inserted' = inserted \cup {threads[t].name}
    /\ ret' = Called("locked_insert", t, <<threads[t].name, threads[t].value>>, None)
    /\ UNCHANGED <<engine, global, pushed, saved, origin, steps>>

----------------------------------------------------------------------------
(* Inputs.                                                                 *)

ImportPairs == ImportNames \X Modules

\* Sequences of pairs of length 0..n
RECURSIVE PairSeqs(_)
PairSeqs(n) ==
    IF n = 0 THEN { <<>> }
    ELSE PairSeqs(n - 1) \cup
         {Append(q, p) : q \in {x \in PairSeqs(n - 1) : Len(x) = n - 1}, p \in ImportPairs}

----------------------------------------------------------------------------
(* The import stack and its queries, one container.                        *)

\* A step of a specification that does not bound the run / that does
Idle == UNCHANGED <<steps, lock, threads, inserted>>
Tick == steps < MaxSteps /\ steps' = steps + 1 /\ UNCHANGED <<lock, threads, inserted>>

NextStack ==
    \/ \E p \in ImportPairs :
         num_imports(global[1], heap) < MaxImports /\ PushImport(1, p[1], p[2]) /\ Idle
    \/ \E iter \in PairSeqs(MaxExtend) :
         /\ num_imports(global[1], heap) + Len(iter) <= MaxImports
         /\ ExtendImports(1, iter) /\ Idle
    \/ \E size \in 0..(MaxImports + 1) : TruncateImports(1, size) /\ Idle
    \/ NumImports(1) /\ Idle
    \/ \E index \in 0..(MaxImports + 1) : GetSharedImport(1, index) /\ Idle
    \/ \E name \in QueryNames : FindImport(1, name) /\ Idle
    \/ IterImports(1) /\ Idle
    \/ IterImportsRaw(1) /\ Idle
    \/ ScanImportsRaw(1) /\ Idle
    \/ \E hash \in FnHashes : MayContainDynamicFn(1, hash) /\ Idle
    \/ \E hash \in FnHashes : ContainsQualifiedFn(1, hash) /\ Idle
    \/ \E hash \in FnHashes : GetQualifiedFn(1, hash) /\ Idle
    \/ \E id \in TypeIds : ContainsIter(1, id) /\ Idle
    \/ \E id \in TypeIds : GetIter(1, id) /\ Idle
    \/ Source(1) /\ Idle

SpecStack == Init /\ [][NextStack]_vars

----------------------------------------------------------------------------
(* Blocks: the evaluator's save / push / truncate brackets, one container. *)

NextBlocks ==
    \/ \E p \in ImportPairs :
         num_imports(global[1], heap) < MaxImports /\ PushImport(1, p[1], p[2]) /\ Idle
    \/ Len(saved[1]) < MaxBlocks /\ EnterBlock(1) /\ Idle
    \/ ExitBlock(1) /\ Idle
    \/ NumImports(1) /\ Idle

SpecBlocks == Init /\ [][NextBlocks]_vars

----------------------------------------------------------------------------
(* Frames: containers cloned from one another, each with its own import    *)
(* stack, counters, flag and hash cache; runs of at most MaxSteps calls.   *)

FramePairs == {<<"m", "A">>, <<"n", "B">>}
FrameSeqs == { <<<<"n", "B">>, <<"m", "A">>>> }

NextFrames ==
    \/ \E c \in Ids : Len(global) < MaxGlobals /\ CloneGlobal(c) /\ Tick
    \/ \E c \in Ids, p \in FramePairs : PushImport(c, p[1], p[2]) /\ Tick
    \/ \E c \in Ids, iter \in FrameSeqs : ExtendImports(c, iter) /\ Tick
    \/ \E c \in Ids, size \in 0..2 : TruncateImports(c, size) /\ Tick
    \/ \E c \in Ids, field \in CounterFields : WriteCounter(c, field, 1) /\ Tick
    \/ \E c \in Ids, field \in DepthFields :
         global[c][field] > 0 /\ WriteCounter(c, field, -1) /\ Tick
    \/ \E c \in Ids : SetAlwaysSearchScope(c) /\ Tick
    \/ \E c \in Ids : HashIdxGet(c) /\ Tick
    \/ \E c \in Ids : HashIdxSet(c) /\ Tick

SpecFrames == Init /\ [][NextFrames]_vars

----------------------------------------------------------------------------
(* Constants: containers cloned from one another declaring and reading     *)
(* global constants; runs of at most MaxSteps calls.                       *)

ConstNames == {"X", "Y"}
ConstValues == {10, 20}

NextConsts ==
    \/ \E c \in Ids : Len(global) < MaxGlobals /\ CloneGlobal(c) /\ Tick
    \/ \E c \in Ids, name \in ConstNames, value \in ConstValues :
         DeclareConstant(c, name, value) /\ Tick
    \/ \E c \in Ids, name \in ConstNames : ReadConstant(c, name) /\ Tick

SpecConsts == Init /\ [][NextConsts]_vars

----------------------------------------------------------------------------
(* Threads: the host declares a first constant, clones the container once  *)
(* per further thread, and the threads then use the shared cache.          *)

Quiet == steps = 0
Running == Len(global) >= 2

NextThreads ==
    \/ \E name \in ConstNames, value \in ConstValues :
         /\ Quiet /\ Len(global) = 1 /\ global[1].constants = None
         /\ DeclareConstant(1, name, value) /\ Idle
    \/ /\ Quiet /\ IsSome(global[1].constants) /\ Len(global) < MaxThreads
       /\ CloneGlobal(1) /\ Idle
    \/ \E t \in Ids, name \in ConstNames : Running /\ ReadLock(t, name)
    \/ \E t \in Ids : Running /\ ReadUnlock(t)
    \/ \E t \in Ids, name \in ConstNames, value \in ConstValues :
         Running /\ WriteLock(t, name, value)
    \/ \E t \in Ids : Running /\ WriteUnlock(t)

\* Some thread that can take a step does take one (every step of NextThreads
\* changes the memory or a thread's position)
SpecThreads == Init /\ [][NextThreads]_vars /\ WF_<<heap, lock, threads>>(NextThreads)

----------------------------------------------------------------------------
(* The index hash cache, for every value the two hashes may have.          *)

HashValues == 0..MaxHash

InitHash == InitWith(Engines(HashValues \X HashValues, {None}))

NextHash ==
    \/ \E c \in Ids : HashIdxGet(c) /\ Idle
    \/ \E c \in Ids : HashIdxSet(c) /\ Idle
    \/ \E c \in Ids : Len(global) < MaxGlobals /\ CloneGlobal(c) /\ Idle

SpecHash == InitHash /\ [][NextHash]_vars

----------------------------------------------------------------------------
(* The search flag under every operation of the component, one container.  *)

NextFlag ==
    \/ SetAlwaysSearchScope(1) /\ Idle
    \/ \E p \in ImportPairs :
         num_imports(global[1], heap) < MaxShallow /\ PushImport(1, p[1], p[2]) /\ Idle
    \/ \E iter \in PairSeqs(MaxShallow) :
         /\ num_imports(global[1], heap) + Len(iter) <= MaxShallow
         /\ ExtendImports(1, iter) /\ Idle
    \/ \E size \in 0..(MaxShallow + 1) : TruncateImports(1, size) /\ Idle
    \/ NumImports(1) /\ Idle
    \/ \E index \in 0..MaxShallow : GetSharedImport(1, index) /\ Idle
    \/ \E name \in QueryNames : FindImport(1, name) /\ Idle
    \/ IterImports(1) /\ Idle
    \/ IterImportsRaw(1) /\ Idle
    \/ ScanImportsRaw(1) /\ Idle
    \/ \E hash \in FnHashes : MayContainDynamicFn(1, hash) /\ Idle
    \/ \E hash \in FnHashes : ContainsQualifiedFn(1, hash) /\ Idle
    \/ \E hash \in FnHashes : GetQualifiedFn(1, hash) /\ Idle
    \/ \E id \in TypeIds : ContainsIter(1, id) /\ Idle
    \/ \E id \in TypeIds : GetIter(1, id) /\ Idle
    \/ Source(1) /\ Idle
    \/ HashIdxGet(1) /\ Idle
    \/ HashIdxSet(1) /\ Idle

SpecFlag == Init /\ [][NextFlag]_vars

----------------------------------------------------------------------------
(* A container from its construction on, for engines with different        *)
(* default tags: every operation of the component, and the evaluator's     *)
(* constant declarations and references.                                   *)

Tags == {"tag", "host"}

InitFresh == InitWith([default_tag : Tags, debugger : {None}, fn_hash : {<<1, 2>>}])

NextFresh ==
    \/ NextFlag
    \/ \E name \in ConstNames, value \in ConstValues :
         DeclareConstant(1, name, value) /\ Idle
    \/ \E name \in ConstNames : ReadConstant(1, name) /\ Idle

SpecFresh == InitFresh /\ [][NextFresh]_vars

----------------------------------------------------------------------------
(* Fields: one container whose public fields the evaluator has written     *)
(* (counters, flag, source, a constant), under every operation of the      *)
(* component.                                                              *)

NextFields ==
    \/ \E field \in CounterFields :
         global[1][field] < 1 /\ WriteCounter(1, field, 1) /\ Idle
    \/ SetAlwaysSearchScope(1) /\ Idle
    \/ SetSource(1, "main") /\ Idle
    \/ DeclareConstant(1, "X", 10) /\ Idle
    \/ \E p \in FramePairs :
         num_imports(global[1], heap) <= MaxShallow /\ PushImport(1, p[1], p[2]) /\ Idle
    \/ \E iter \in FrameSeqs :
         /\ num_imports(global[1], heap) + Len(iter) <= MaxShallow + 1
         /\ ExtendImports(1, iter) /\ Idle
    \/ \E size \in 0..MaxShallow : TruncateImports(1, size) /\ Idle
    \/ NumImports(1) /\ Idle
    \/ GetSharedImport(1, 0) /\ Idle
    \/ FindImport(1, "m") /\ Idle
    \/ IterImports(1) /\ Idle
    \/ IterImportsRaw(1) /\ Idle
    \/ ScanImportsRaw(1) /\ Idle
    \/ MayContainDynamicFn(1, 1) /\ Idle
    \/ ContainsQualifiedFn(1, 1) /\ Idle
    \/ GetQualifiedFn(1, 1) /\ Idle
    \/ ContainsIter(1, 1) /\ Idle
    \/ GetIter(1, 1) /\ Idle
    \/ Source(1) /\ Idle
    \/ HashIdxGet(1) /\ Idle
    \/ HashIdxSet(1) /\ Idle

SpecFields == Init /\ [][NextFields]_vars

----------------------------------------------------------------------------
(* The debugger field under every operation of the component, for an       *)
(* engine without a debugger and with each init callback.                  *)

InitDebug == InitWith(Engines({<<1, 2>>}, {None} \cup {Some(cb) : cb \in InitCallbacks}))

SpecDebug == InitDebug /\ [][NextFlag]_vars

----------------------------------------------------------------------------
(* Vocabulary of the properties.                                           *)

MaxOf(S) == CHOOSE x \in S : \A y \in S : y <= x
MinOf(S) == CHOOSE x \in S : \A y \in S : x <= y

\* <<a, a-1, ..., b>> and <<a, a+1, ..., b>>
Down(a, b) == [i \in 1..(a - b + 1) |-> a + 1 - i]
Up(a, b) == [i \in 1..(b - a + 1) |-> a - 1 + i]

\* The receiver of the last call and what was pushed on it
Self == global[ret.c]
History == pushed[ret.c]
Depth == Len(History)

\* Indices of the pushed entries with a given name
Named(name) == {i \in 0..(Depth - 1) : History[i + 1][1] = name}

\* Indices of the pushed modules that a lookup's key selects
FnLookups == {"may_contain_dynamic_fn", "contains_qualified_fn", "get_qualified_fn"}
IterLookups == {"contains_iter", "get_iter"}
BoolLookups == {"may_contain_dynamic_fn", "contains_qualified_fn", "contains_iter"}
GetLookups == {"get_qualified_fn", "get_iter"}
Lookups == FnLookups \cup IterLookups

Defines(op, m, key) ==
    CASE op = "may_contain_dynamic_fn" -> key \in ModuleTable[m].dynamic
      [] op \in {"contains_qualified_fn", "get_qualified_fn"} ->
            \E e \in ModuleTable[m].fns : e[1] = key
      [] OTHER -> \E e \in ModuleTable[m].iters : e[1] = key

Matching(op, key) == {i \in 0..(Depth - 1) : Defines(op, History[i + 1][2], key)}

\* What a getter returns from module m
Entry(op, m, key) ==
    IF op = "get_qualified_fn"
    THEN <<(CHOOSE e \in ModuleTable[m].fns : e[1] = key)[2], ModuleTable[m].id>>
    ELSE (CHOOSE e \in ModuleTable[m].iters : e[1] = key)[2]

----------------------------------------------------------------------------
(* C3.  Shadowing: find_import(name) returns the greatest index whose      *)
(* stored name is `name`, None exactly when no entry has that name; the    *)
(* index is below num_imports() and get_shared_import at it returns the    *)
(* module pushed with that most recent occurrence of the name.             *)

C3_Shadowing ==
    ret.op = "find_import" =>
        /\ ~ret.panic
        /\ (ret.val = None) <=> (Named(ret.arg) = {})
        /\ Named(ret.arg) # {} =>
              LET i == MaxOf(Named(ret.arg))
              IN  /\ ret.val = Some(i)
                  /\ i < num_imports(Self, heap)
                  /\ Imports(Self, heap)[i + 1] = ret.arg
                  /\ get_shared_import(Self, heap, i).val = Some(History[i + 1][2])

\* ("m", A), ("m", B) and one more were pushed; find_import("m") resolved to B
C3_Witness ==
    /\ ret.op = "find_import" /\ ret.arg = "m" /\ ret.val = Some(1)
    /\ History = <<<<"m", "A">>, <<"m", "B">>, <<"n", "A">>>>
    /\ get_shared_import(Self, heap, 1).val = Some("B")

----------------------------------------------------------------------------
(* C4 as stated.  All five qualified lookups scan the module stack         *)
(* innermost-first and stop at the first match.                            *)

C4_AllInnermostFirst ==
    (ret.op \in Lookups /\ Depth > 0) =>
        ret.probes =
            Down(Depth - 1,
                 IF Matching(ret.op, ret.arg) = {} THEN 0
                 ELSE MaxOf(Matching(ret.op, ret.arg)))

(* C4 as amended.  get_qualified_fn and get_iter scan innermost-first and  *)
(* return the entry of the most recently pushed module that defines the    *)
(* key (with that module's id for get_qualified_fn), None when no module   *)
(* does; may_contain_dynamic_fn, contains_qualified_fn and contains_iter   *)
(* scan in insertion order, stop at the first match, and return whether    *)
(* some module matches.                                                    *)

C4_LookupOrder ==
    LET hits == Matching(ret.op, ret.arg)
    IN  /\ ret.op \in GetLookups =>
              IF hits = {}
              THEN ret.val = None /\ ret.probes = Down(Depth - 1, 0)
              ELSE /\ ret.val = Some(Entry(ret.op, History[MaxOf(hits) + 1][2], ret.arg))
                   /\ ret.probes = Down(Depth - 1, MaxOf(hits))
        /\ ret.op \in BoolLookups =>
              /\ ret.val = (hits # {})
              /\ ret.probes = Up(0, IF hits = {} THEN Depth - 1 ELSE MinOf(hits))

\* A, then B, then C were imported; A and B both define function hash 1,
\* and get_qualified_fn(1) returned B's function with B's id after asking C and B
C4_Witness ==
    /\ ret.op = "get_qualified_fn" /\ ret.arg = 1
    /\ History = <<<<"m", "A">>, <<"n", "B">>, <<"m", "C">>>>
    /\ ret.val = Some(<<"fB1", Some("b")>>)
    /\ ret.probes = <<2, 1>>

----------------------------------------------------------------------------
(* C10.  Absence, never failure: over an empty stack every qualified       *)
(* lookup returns false or None, and find_import and get_shared_import     *)
(* return None; for any stack an unresolved name, an out-of-range index,   *)
(* an undefined hash or type tag gives the absence value; no call panics.  *)

C10_Absence ==
    /\ ~ret.panic
    /\ (ret.op = "find_import" /\ Named(ret.arg) = {}) => ret.val = None
    /\ (ret.op = "get_shared_import" /\ ret.arg >= Depth) => ret.val = None
    /\ (ret.op \in BoolLookups /\ Matching(ret.op, ret.arg) = {}) => ret.val = FALSE
    /\ (ret.op \in GetLookups /\ Matching(ret.op, ret.arg) = {}) => ret.val = None

\* Two modules are imported and get_shared_import(3) returned None
C10_Witness ==
    /\ ret.op = "get_shared_import" /\ ret.arg = 3 /\ ret.val = None
    /\ num_imports(Self, heap) = 2

----------------------------------------------------------------------------
(* C1.  Lockstep: in every state reached from new() by push_import,        *)
(* extend, truncate_imports (any size) and clone, each container's         *)
(* `imports` and `modules` have the same length and the module at index i  *)
(* is the one pushed together with the name at index i.                    *)

C1_Lockstep ==
    \A c \in Ids :
        /\ Len(Imports(global[c], heap)) = Len(ModulesOf(global[c], heap))
        /\ Len(Imports(global[c], heap)) = Len(pushed[c])
        /\ \A i \in 1..Len(pushed[c]) :
              /\ Imports(global[c], heap)[i] = pushed[c][i][1]
              /\ ModulesOf(global[c], heap)[i] = pushed[c][i][2]

\* A clone that was extended past its original and then truncated to two entries
C1_Witness ==
    /\ Len(global) = 2 /\ origin[2].parent = 1
    /\ ret.op = "truncate_imports" /\ ret.c = 2 /\ ret.arg = 2
    /\ pushed[1] = <<<<"m", "A">>>>
    /\ pushed[2] = <<<<"m", "A">>, <<"n", "B">>>>

----------------------------------------------------------------------------
(* C2.  truncate_imports(n) with n <= the current length leaves            *)
(* num_imports() = n and every pair below n as it was; so remembering      *)
(* n = num_imports(), pushing imports and truncating to n restores the     *)
(* import stack to its earlier contents, nested brackets included.         *)

C2_Restore ==
    /\ \A k \in 1..Len(saved[1]) :
          LET e == saved[1][k]
          IN  /\ e.len <= num_imports(global[1], heap)
              /\ SubSeq(Imports(global[1], heap), 1, e.len) = e.imports
              /\ SubSeq(ModulesOf(global[1], heap), 1, e.len) = e.modules
    /\ ret.op = "exit_block" =>
          /\ ret.arg.len <= ret.arg.was
          /\ num_imports(Self, heap) = ret.arg.len
          /\ Imports(Self, heap) = ret.arg.imports
          /\ ModulesOf(Self, heap) = ret.arg.modules

\* The inner of two nested blocks was left: three entries were truncated to
\* the two the inner block had saved, and the outer block's one is below them
C2_Witness ==
    /\ ret.op = "exit_block" /\ ret.arg.was = 3 /\ ret.arg.len = 2
    /\ Len(saved[1]) = 1 /\ saved[1][1].len = 1
    /\ Imports(Self, heap) = <<"m", "n">>
    /\ ModulesOf(Self, heap) = <<"A", "B">>

----------------------------------------------------------------------------
(* C8.  Frame-private clone state: a call on one container (push_import,   *)
(* truncate_imports, extend, a counter or flag write, a hash accessor,     *)
(* clone) leaves the import stack, counters, flag and hash cache of every  *)
(* other container as they were.                                           *)

Private(g, h) ==
    [imports |-> Imports(g, h),
     modules |-> ModulesOf(g, h),
     num_operations |-> g.num_operations,
     num_modules_loaded |-> g.num_modules_loaded,
     level |-> g.level,
     scope_level |-> g.scope_level,
     always_search_scope |-> g.always_search_scope,
     fn_hash_indexing |-> g.fn_hash_indexing]

C8_FramePrivate ==
    [][\A d \in Ids : d # ret'.c => Private(global'[d], heap') = Private(global[d], heap)]_vars

\* The clone pushed an import the original does not have
C8_Witness ==
    /\ Len(global) = 2 /\ origin[2].parent = 1
    /\ ret.op = "push_import" /\ ret.c = 2
    /\ Imports(global[1], heap) = <<>>
    /\ Imports(global[2], heap) = <<"m">>
    /\ global[2].level = 1 /\ global[1].level = 0

----------------------------------------------------------------------------
(* C5 as stated.  Hash memoization: once a call of hash_idx_get or         *)
(* hash_idx_set has been made on an instance, the next call of either on   *)
(* that instance computes no hash, and a repeated call of the same         *)
(* accessor returns the same value.                                        *)

HashOps == {"hash_idx_get", "hash_idx_set"}

C5_Memoized ==
    [][(ret.op \in HashOps /\ ret'.op \in HashOps /\ ret'.c = ret.c) =>
          /\ ret'.calcs = 0
          /\ ret'.op = ret.op => ret'.val = ret.val]_vars

(* What does hold of hash memoization for every value of the hashes: the   *)
(* second of two consecutive calls returns the same value as a first call  *)
(* of its accessor, and computes nothing unless both hashes are zero.      *)

C5_MemoizedUnlessZero ==
    [][(ret.op \in HashOps /\ ret'.op \in HashOps /\ ret'.c = ret.c) =>
          /\ ret'.calcs = 0 \/ engine.fn_hash = <<0, 0>>
          /\ ret'.val = IF ret'.op = "hash_idx_get" THEN engine.fn_hash[1]
                        ELSE engine.fn_hash[2]]_vars

----------------------------------------------------------------------------
(* C6.  Shared constants through clones: a container cloned from one whose *)
(* constants cache was present holds the same handle, so each sees every   *)
(* constant inserted through the other, for any clones and inserts.        *)

C6_SharedThroughClones ==
    \A c \in Ids :
        (origin[c].parent # 0 /\ origin[c].cached) =>
            /\ IsSome(global[c].constants)
            /\ global[c].constants = global[origin[c].parent].constants
            /\ \A name \in ConstNames :
                  read_constant(global[c], heap, name) =
                  read_constant(global[origin[c].parent], heap, name)
            /\ (ret.op = "declare_constant" /\ ret.c \in {c, origin[c].parent}) =>
                  /\ read_constant(global[c], heap, ret.arg[1]) = Some(ret.arg[2])
                  /\ read_constant(global[origin[c].parent], heap, ret.arg[1])
                        = Some(ret.arg[2])

\* X was declared, the container cloned, and Y declared through the clone:
\* the original reads Y
C6_Witness ==
    /\ steps = 3 /\ Len(global) = 2 /\ origin[2].cached
    /\ ret.op = "declare_constant" /\ ret.c = 2 /\ ret.arg = <<"Y", 20>>
    /\ read_constant(global[1], heap, "Y") = Some(20)
    /\ read_constant(global[1], heap, "X") = Some(10)

----------------------------------------------------------------------------
(* C7 as stated.  With the cache created on the first declaration, every   *)
(* container descended by cloning from the top-level one sees the          *)
(* constants declared through any other, whatever the order of clones and  *)
(* declarations.                                                           *)

C7_AllDescendantsShare ==
    \A c, d \in Ids :
        \A name \in ConstNames :
            read_constant(global[c], heap, name) = read_constant(global[d], heap, name)

----------------------------------------------------------------------------
(* C9.  always_search_scope is false on a freshly constructed container,   *)
(* and once true no operation of the component makes it false again.       *)

C9_FlagSticky ==
    /\ global[1].always_search_scope = FALSE
    /\ [][\A c \in Ids : global[c].always_search_scope => global'[c].always_search_scope]_vars

\* The flag was set, and the hashes were computed afterwards by hash_idx_set
C9_Witness ==
    /\ global[1].always_search_scope
    /\ ret.op = "hash_idx_set" /\ ret.calcs = 2
    /\ Depth = 1

----------------------------------------------------------------------------
(* C11.  Iteration order: iter_imports and iter_imports_raw yield the      *)
(* (name, module) entries most-recently-pushed-first, scan_imports_raw     *)
(* yields them in insertion order; the reverse iteration is the forward    *)
(* one reversed (same multiset of pairs, each of length num_imports()),    *)
(* and every yielded pair is a pair that was pushed together.              *)

ReverseIters == {"iter_imports", "iter_imports_raw"}
Iters == ReverseIters \cup {"scan_imports_raw"}

\* Number of occurrences of pair p in a sequence of pairs
Count(it, p) == Cardinality({i \in 1..Len(it) : it[i] = p})

C11_IterationOrder ==
    /\ ret.op \in ReverseIters =>
          /\ Len(ret.val) = Depth
          /\ \A i \in 1..Depth : ret.val[i] = History[Depth + 1 - i]
    /\ ret.op = "scan_imports_raw" => ret.val = History
    /\ ret.op \in Iters =>
          /\ Len(ret.val) = num_imports(Self, heap)
          /\ \A i \in 1..Len(ret.val) : \E k \in 1..Depth : ret.val[i] = History[k]
    /\ LET fwd == scan_imports_raw(global[1], heap)
           bwd == iter_imports(global[1], heap)
       IN  /\ bwd = rev(fwd)
           /\ iter_imports_raw(global[1], heap) = bwd
           /\ \A p \in ImportPairs : Count(fwd, p) = Count(bwd, p)

\* ("m", A), ("n", B), ("m", C) were pushed and iter_imports yielded C's
\* entry first and A's last
C11_Witness ==
    /\ ret.op = "iter_imports"
    /\ History = <<<<"m", "A">>, <<"n", "B">>, <<"m", "C">>>>
    /\ ret.val = <<<<"m", "C">>, <<"n", "B">>, <<"m", "A">>>>

----------------------------------------------------------------------------
(* C12.  Concurrent use of one shared constants cache: with two or more    *)
(* containers holding the same cache handle, each driven by its own thread *)
(* and each holding the cache's lock for the whole of every read and       *)
(* insert, no insert is lost (once the threads have finished the map holds *)
(* every inserted name), no read observes a partially applied insert, and  *)
(* the threads never deadlock: all of them finish.                         *)

\* Every operation given to the threads has been begun and completed
AllFinished == Running /\ steps = MaxThreadOps /\ \A t \in Ids : threads[t].pc = "idle"

\* Thread t can take its next step
CanStep(t) ==
    \/ threads[t].pc \in {"reading", "inserting"}
    \/ threads[t].pc = "idle" /\ steps < MaxThreadOps /\ can_read(lock, CacheOf(t))

C12_ThreadsSafe ==
    Running =>
        \* every thread holds the one handle
        /\ \A t \in Ids : global[t].constants = global[1].constants
        \* an insert in progress excludes every other operation
        /\ \A t, u \in Ids :
              (t # u /\ threads[t].pc = "inserting") => threads[u].pc = "idle"
        \* a read returns the entry of every name inserted before it
        /\ (ret.op = "locked_read" /\ ret.arg[1] \in inserted) => IsSome(ret.val)
        \* no insert is lost
        /\ (\A t \in Ids : threads[t].pc # "inserting") =>
              \A t \in Ids, name \in inserted :
                  IsSome(read_constant(global[t], heap, name))
        \* while a thread has work left, some thread can step
        /\ ~AllFinished => \E t \in Ids : CanStep(t)

C12_SharedCacheThreads == []C12_ThreadsSafe /\ <>[]AllFinished

\* Thread 2 is in the middle of replacing X, which thread 1 had inserted, and
\* thread 1 has an operation still to do
C12_Witness ==
    /\ Running
    /\ threads[2].pc = "inserting" /\ threads[2].name = "X"
    /\ ret.op = "write_lock" /\ ret.c = 2
    /\ "X" \in inserted /\ threads[1].pc = "idle" /\ steps < MaxThreadOps
    /\ read_constant(global[1], heap, "X") = None
    /\ ~can_read(lock, CacheOf(1))

----------------------------------------------------------------------------
(* C13.  Debugger initial state: on construction the status is Init        *)
(* exactly when the engine has a debugger, and the context is then what    *)
(* the engine's init callback returns; otherwise the status is Continue    *)
(* and the context the unit value.  No operation of the component changes  *)
(* the debugger afterwards.                                                *)

C13_DebuggerInit ==
    \A c \in Ids :
        /\ global[c].debugger.status = "Init" <=> IsSome(engine.debugger)
        /\ global[c].debugger.status \in {"Init", "CONTINUE"}
        /\ IsSome(engine.debugger) =>
              global[c].debugger.context = init(Unwrap(engine.debugger), engine)
        /\ ~IsSome(engine.debugger) => global[c].debugger.context = "UNIT"

\* An engine whose init callback returns the unit value: the status is Init
\* all the same, also after an import and the computation of the hashes
C13_Witness ==
    /\ engine.debugger = Some("init_unit")
    /\ Depth = 1
    /\ ret.op = "hash_idx_get" /\ ret.calcs = 2
    /\ global[1].debugger = [status |-> "Init", context |-> "UNIT"]

----------------------------------------------------------------------------
(* C14.  Hash cache stability: in every reachable state fn_hash_indexing   *)
(* is the sentinel (0, 0) or the fixed pair (hash of index-get with 2      *)
(* arguments, hash of index-set with 3); once it holds a pair other than   *)
(* the sentinel it never changes; and after every history of calls and     *)
(* clones hash_idx_get returns the fixed index-get hash and hash_idx_set   *)
(* the fixed index-set hash.                                               *)

FixedPair == <<calc_fn_hash(engine, FN_IDX_GET, 2), calc_fn_hash(engine, FN_IDX_SET, 3)>>

C14_PairAndValues ==
    /\ \A c \in Ids : global[c].fn_hash_indexing \in {<<0, 0>>, FixedPair}
    /\ ret.op = "hash_idx_get" => ret.val = FixedPair[1]
    /\ ret.op = "hash_idx_set" => ret.val = FixedPair[2]

C14_HashStable ==
    /\ []C14_PairAndValues
    /\ [][\A c \in Ids :
            global[c].fn_hash_indexing # <<0, 0>> =>
                global'[c].fn_hash_indexing = global[c].fn_hash_indexing]_vars

\* The hashes are 1 and 2; they were computed by hash_idx_get, the container
\* was cloned, and hash_idx_set on the clone returned 2 from the cached pair
C14_Witness ==
    /\ engine.fn_hash = <<1, 2>>
    /\ Len(global) = 2 /\ global[1].fn_hash_indexing = <<1, 2>>
    /\ ret.op = "hash_idx_set" /\ ret.c = 2 /\ ret.val = 2 /\ ret.calcs = 0

----------------------------------------------------------------------------
(* C15.  A freshly constructed container has an empty import stack,        *)
(* num_operations, num_modules_loaded, level and scope_level 0, the hash   *)
(* cache at the sentinel (0, 0), no constants cache, no embedded resolver, *)
(* no source (source() returns None) and the engine's default tag; the     *)
(* hash cache stays at the sentinel until the first hash accessor call and *)
(* the constants cache stays absent until the first constant declaration.  *)

Fresh(g, h, e) ==
    /\ num_imports(g, h) = 0
    /\ Imports(g, h) = <<>> /\ ModulesOf(g, h) = <<>>
    /\ g.num_operations = 0
    /\ g.num_modules_loaded = 0
    /\ g.level = 0
    /\ g.scope_level = 0
    /\ g.fn_hash_indexing = <<0, 0>>
    /\ g.constants = None
    /\ g.embedded_module_resolver = None
    /\ source(g) = None
    /\ g.tag = e.default_tag

C15_FreshContainer ==
    /\ Fresh(global[1], heap, engine)
    /\ [][\A c \in Ids :
            /\ (global[c].fn_hash_indexing = <<0, 0>> /\ ~(ret'.op \in HashOps /\ ret'.c = c))
                  => global'[c].fn_hash_indexing = <<0, 0>>
            /\ (global[c].constants = None /\ ~(ret'.op = "declare_constant" /\ ret'.c = c))
                  => global'[c].constants = None]_vars

\* Built from an engine whose default tag is "host"; an import was pushed and
\* the first constant has just been declared, the hashes not yet computed
C15_Witness ==
    /\ engine.default_tag = "host" /\ global[1].tag = "host"
    /\ Depth = 1
    /\ ret.op = "declare_constant"
    /\ IsSome(global[1].constants)
    /\ global[1].fn_hash_indexing = <<0, 0>>

----------------------------------------------------------------------------
(* C16.  Frame conditions: find_import, get_shared_import, num_imports,    *)
(* the three iterators, the five qualified lookups and source() change no  *)
(* field of the container; hash_idx_get and hash_idx_set change nothing    *)
(* but fn_hash_indexing; push_import, extend and truncate_imports change   *)
(* nothing but `imports` and `modules`: the counters, the flag, source,    *)
(* tag, hash cache and constants handle stay as they were, and so the      *)
(* operation count is never decreased.                                     *)

QueryOps ==
    {"find_import", "get_shared_import", "num_imports", "source"} \cup Iters \cup Lookups
StackOps == {"push_import", "extend", "truncate_imports"}

\* Every field of a container, vectors and cache by their contents
Fields(g, h) ==
    [imports |-> Imports(g, h),
     modules |-> ModulesOf(g, h),
     lib |-> h.vecs[g.lib],
     source |-> g.source,
     num_operations |-> g.num_operations,
     num_modules_loaded |-> g.num_modules_loaded,
     level |-> g.level,
     scope_level |-> g.scope_level,
     always_search_scope |-> g.always_search_scope,
     fn_hash_indexing |-> g.fn_hash_indexing,
     embedded_module_resolver |-> g.embedded_module_resolver,
     constants |-> g.constants,
     cache |-> ConstantsOf(g, h),
     tag |-> g.tag,
     debugger |-> g.debugger]

C16_FrameConditions ==
    [][LET before == Fields(global[ret'.c], heap)
           after == Fields(global'[ret'.c], heap')
       IN  /\ ret'.op \in QueryOps => after = before
           /\ ret'.op \in HashOps =>
                 [after EXCEPT !.fn_hash_indexing = before.fn_hash_indexing] = before
           /\ ret'.op \in StackOps =>
                 [after EXCEPT !.imports = before.imports,
                               !.modules = before.modules] = before
           /\ ret'.op \in QueryOps \cup HashOps \cup StackOps =>
                 after.num_operations >= before.num_operations]_vars

\* The evaluator has counted an operation and a call, set the flag and the
\* source and declared a constant; the hashes are computed; a second import
\* has just been pushed
C16_Witness ==
    /\ ret.op = "push_import" /\ Depth = 2
    /\ global[1].num_operations = 1 /\ global[1].level = 1
    /\ global[1].always_search_scope
    /\ source(global[1]) = Some("main")
    /\ global[1].fn_hash_indexing = <<1, 2>>
    /\ read_constant(global[1], heap, "X") = Some(10)

----------------------------------------------------------------------------
(* C17.  The boolean lookups agree with the getters although they scan in  *)
(* the opposite direction: on every import stack, for every hash,          *)
(* contains_qualified_fn(hash) is true exactly when get_qualified_fn(hash) *)
(* is Some, and for every type id contains_iter(id) is true exactly when   *)
(* get_iter(id) is Some.                                                   *)

C17_ContainsIffGet ==
    /\ \A hash \in FnHashes :
          contains_qualified_fn(global[1], heap, hash).val
              <=> IsSome(get_qualified_fn(global[1], heap, hash).val)
    /\ \A id \in TypeIds :
          contains_iter(global[1], heap, id).val
              <=> IsSome(get_iter(global[1], heap, id).val)
    /\ ret.op = "contains_qualified_fn" =>
          (ret.val <=> IsSome(get_qualified_fn(Self, heap, ret.arg).val))
    /\ ret.op = "get_qualified_fn" =>
          (IsSome(ret.val) <=> contains_qualified_fn(Self, heap, ret.arg).val)
    /\ ret.op = "contains_iter" =>
          (ret.val <=> IsSome(get_iter(Self, heap, ret.arg).val))
    /\ ret.op = "get_iter" =>
          (IsSome(ret.val) <=> contains_iter(Self, heap, ret.arg).val)

\* C, then B, then A were imported; contains_qualified_fn(2) asked C and then
\* B and answered true, where get_qualified_fn(2) asks A and then B
C17_Witness ==
    /\ History = <<<<"m", "C">>, <<"n", "B">>, <<"m", "A">>>>
    /\ ret.op = "contains_qualified_fn" /\ ret.arg = 2
    /\ ret.val = TRUE /\ ret.probes = <<0, 1>>
    /\ get_qualified_fn(Self, heap, 2).probes = <<2, 1>>
    /\ get_qualified_fn(Self, heap, 2).val = Some(<<"fB2", Some("b")>>)

----------------------------------------------------------------------------
(* C18.  truncate_imports(size) with size >= the current length is a       *)
(* no-op: both vectors keep their length and contents, so a call outside   *)
(* the documented precondition neither grows the stack nor breaks the      *)
(* lockstep; and truncate_imports is idempotent: truncating twice to the   *)
(* same size equals truncating once.                                       *)

TruncateSizes == 0..(MaxImports + 1)

C18_OnEveryStack ==
    \A size \in TruncateSizes :
        LET once == truncate_imports(global[1], heap, size)
            twice == truncate_imports(global[1], once, size)
        IN  /\ twice = once
            /\ size >= num_imports(global[1], heap) => once = heap
            /\ Len(Imports(global[1], once)) = Min(size, num_imports(global[1], heap))
            /\ Len(ModulesOf(global[1], once)) = Len(Imports(global[1], once))

C18_TruncateNoOp ==
    /\ []C18_OnEveryStack
    /\ [][(ret'.op = "truncate_imports" /\ ret'.arg >= num_imports(global[1], heap)) =>
            /\ Imports(global'[1], heap') = Imports(global[1], heap)
            /\ ModulesOf(global'[1], heap') = ModulesOf(global[1], heap)
            /\ heap' = heap]_vars

\* Two modules are imported and truncate_imports(4) has left both in place
C18_Witness ==
    /\ ret.op = "truncate_imports" /\ ret.arg = 4
    /\ Imports(Self, heap) = <<"m", "n">>
    /\ ModulesOf(Self, heap) = <<"A", "B">>
    /\ History = <<<<"m", "A">>, <<"n", "B">>>>

----------------------------------------------------------------------------
(* C19.  extend with a sequence of (name, module) pairs leaves the         *)
(* container in the state reached by push_import called once per pair, in  *)
(* the sequence's order: the pairs are appended in iteration order after   *)
(* the existing entries, which are unchanged, and extending with an empty  *)
(* sequence changes nothing.                                               *)

\* The sequences tried on every stack: those made of two of the pairs
ExtendInputs ==
    {iter \in PairSeqs(MaxExtend) : \A i \in 1..Len(iter) : iter[i] \in FramePairs}

\* push_import called once per pair of iter, in order
RECURSIVE PushEach(_, _, _)
PushEach(g, h, iter) ==
    IF iter = <<>> THEN h
    ELSE PushEach(g, push_import(g, h, Head(iter)[1], Head(iter)[2]), Tail(iter))

C19_OnEveryStack ==
    /\ \A iter \in ExtendInputs :
          LET after == extend(global[1], heap, iter)
          IN  /\ after = PushEach(global[1], heap, iter)
              /\ scan_imports_raw(global[1], after) = scan_imports_raw(global[1], heap) \o iter
    /\ extend(global[1], heap, <<>>) = heap

C19_ExtendIsPushes ==
    /\ []C19_OnEveryStack
    /\ [][ret'.op = "extend" =>
            /\ heap' = PushEach(global[1], heap, ret'.arg)
            /\ global' = global
            /\ scan_imports_raw(global'[1], heap') =
                   scan_imports_raw(global[1], heap) \o ret'.arg]_vars

\* One module was imported and extend appended ("n", B) and then ("m", C)
C19_Witness ==
    /\ ret.op = "extend" /\ ret.arg = <<<<"n", "B">>, <<"m", "C">>>>
    /\ Imports(Self, heap) = <<"m", "n", "m">>
    /\ ModulesOf(Self, heap) = <<"A", "B", "C">>

====
